---------------------------- MODULE Spec2Model ----------------------------
(***************************************************************************)
(* manage-project-storage: one reconciliation run of the project storage   *)
(* of the groups of a grant registry (main -> synchronize_storage), with   *)
(* the filesystem under PROJECT_BASE, the Lustre project quotas of         *)
(* PROJECT_FS and the OS group database as the program's environment.      *)
(***************************************************************************)
EXTENDS Integers, Sequences, FiniteSets, TLC

(***************************************************************************)
(* Bounds of the model.                                                    *)
(***************************************************************************)
MaxGroups == 2
MaxGrants == 1
MaxRuns == 2

(***************************************************************************)
(* Program constants.                                                      *)
(***************************************************************************)
PROJECT_FS == "/net/pr2/"

\* stat.S_ISGID | S_IRUSR | S_IWUSR | S_IXUSR | S_IRGRP | S_IWGRP | S_IXGRP
ProvisionMode == 1024 + (256 + 128 + 64) + (32 + 16 + 8)

KbPerGb == 1024 * 1024

(***************************************************************************)
(* Strings whose content the program inspects are sequences of characters. *)
(***************************************************************************)
S_active == <<"a", "c", "t", "i", "v", "e">>
S_accepted == <<"a", "c", "c", "e", "p", "t", "e", "d">>
S_expired == <<"e", "x", "p", "i", "r", "e", "d">>
S_inactive == <<"i", "n">> \o S_active
S_grant_active == <<"g", "r", "a", "n", "t", "_">> \o S_active

\* Python's `needle in hay` on two str values: substring containment.
StrContains(needle, hay) ==
    \E i \in 0..(Len(hay) - Len(needle)) :
        SubSeq(hay, i + 1, i + Len(needle)) = needle

is_grant_active(grant) ==
    StrContains(S_accepted, grant.status) \/ StrContains(S_active, grant.status)

(***************************************************************************)
(* sum_storage.  A storage allocation without a 'capacity' parameter makes *)
(* allocation['parameters']['capacity'] raise KeyError.                    *)
(***************************************************************************)
StorageAllocations(grant) ==
    IF "allocations" \in DOMAIN grant
    THEN SelectSeq(grant.allocations, LAMBDA a : a.resource = "storage")
    ELSE <<>>

RECURSIVE SumCapacity(_)
SumCapacity(allocs) ==
    IF allocs = <<>> THEN 0
    ELSE Head(allocs).parameters.capacity + SumCapacity(Tail(allocs))

RECURSIVE sum_storage(_)
sum_storage(grants) ==
    IF grants = <<>> THEN 0
    ELSE SumCapacity(StorageAllocations(Head(grants))) + sum_storage(Tail(grants))

sum_storage_raises(grants) ==
    \E i \in 1..Len(grants) :
        \E j \in 1..Len(StorageAllocations(grants[i])) :
            "capacity" \notin DOMAIN StorageAllocations(grants[i])[j].parameters

\* lines 135-137: the capacity synchronize_storage applies.
applied_floor_none(sum) == sum

applied_floor(sum) == IF sum < 1 THEN 1 ELSE sum

(***************************************************************************)
(* main, lines 177-187: group_grants, a dict in insertion order.           *)
(***************************************************************************)
RECURSIVE DictKeys(_, _)
DictKeys(groups, seen) ==
    IF groups = <<>> THEN <<>>
    ELSE IF Head(groups).name \in seen THEN DictKeys(Tail(groups), seen)
    ELSE <<Head(groups).name>> \o DictKeys(Tail(groups), seen \cup {Head(groups).name})

SeqRange(s) == {s[i] : i \in 1..Len(s)}

BuildGroupGrants(d) ==
    LET keys == DictKeys(d.groups, {})
    IN  [keys |-> keys,
         grants |-> [g \in SeqRange(keys) |->
                        SelectSeq(d.grants,
                                  LAMBDA gr : is_grant_active(gr) /\ gr.group = g)]]


(***************************************************************************)
(* The inputs the model draws from.                                        *)
(***************************************************************************)
Names == {"teamA", "teamB"}

GidOf == [n \in Names |-> IF n = "teamA" THEN 1001 ELSE 1002]

Gids == {GidOf[n] : n \in Names}

SeqsUpTo(S, n) == UNION {[1..k -> S] : k \in 0..n}

Storage(c) == [resource |-> "storage", parameters |-> [capacity |-> c]]

StorageNoCapacity == [resource |-> "storage", parameters |-> [hours |-> 10]]

StorageCapital(c) == [resource |-> "Storage", parameters |-> [capacity |-> c]]

Cpu == [resource |-> "cpu", parameters |-> [hours |-> 10]]

Grant(s, g, a) == [name |-> "grant", status |-> s, group |-> g, allocations |-> a]

GrantNoAllocations(s, g) == [name |-> "grant", status |-> s, group |-> g]

\* The grants of a reconciliation run.
RunGrants ==
    { Grant(S_active, "teamA", <<Storage(50)>>),
      Grant(S_expired, "teamA", <<Storage(50)>>),
      Grant(S_accepted, "teamB", <<Storage(2), Cpu>>),
      GrantNoAllocations(S_active, "teamB") }

\* Block hard limits a project may have before a run, in kilobytes.
InitialQuotaKb == {0, 50 * KbPerGb, 50 * KbPerGb + 512}

DefaultMode == 256 + 128 + 64 + 32 + 8 + 4 + 1

Absent == [kind |-> "absent", mode |-> 0, gid |-> 0, proj |-> 0]

\* A directory somebody made by hand: not provisioned by this program.
ForeignDir == [kind |-> "dir", mode |-> DefaultMode, gid |-> 0, proj |-> 0]

RegularFile == [kind |-> "file", mode |-> DefaultMode, gid |-> 0, proj |-> 0]

VARIABLES
    data,               \* get_data(): [groups, grants]
    system_groups_gid,  \* the OS group database, name -> gid
    fs,                 \* PROJECT_BASE + name -> what is there
    quota_kb,           \* Lustre project id -> block hard limit in kB
    pc,                 \* where the run is
    group_grants,       \* main's dict
    idx,                \* position of the for loop in group_grants.items()
    capacity,           \* synchronize_storage's locals
    gid,
    run,                \* which invocation of the program this is
    calls,              \* the external calls of this run, in order
    fs0,                \* the filesystem and the quotas as this run found them
    quota_kb0,
    failed_before       \* an external call of an earlier run failed

vars == <<data, system_groups_gid, fs, quota_kb, pc, group_grants, idx,
          capacity, gid, run, calls, fs0, quota_kb0, failed_before>>

env == <<data, system_groups_gid>>

EmptyDict == [keys |-> <<>>, grants |-> <<>>]

InitWith(grantLists, groupLists, fsStates, quotas) ==
    /\ data \in [groups : groupLists, grants : grantLists]
    /\ \E present \in SUBSET Names :
          /\ "teamA" \in present
          /\ system_groups_gid = [n \in present |-> GidOf[n]]
    /\ fs \in fsStates
    /\ quota_kb \in quotas
    /\ pc = "main"
    /\ group_grants = EmptyDict
    /\ idx = 0
    /\ capacity = 0
    /\ gid = 0
    /\ run = 1
    /\ calls = <<>>
    /\ fs0 = fs
    /\ quota_kb0 = quota_kb
    /\ failed_before = FALSE

Init ==
    InitWith(SeqsUpTo(RunGrants, MaxGrants),
             SeqsUpTo([name : Names], MaxGroups),
             {f \in [Names -> {Absent, ForeignDir, RegularFile}] :
                 f["teamB"] # RegularFile},
             {q \in [Gids -> InitialQuotaKb] :
                 q[GidOf["teamB"]] # 50 * KbPerGb + 512})

(***************************************************************************)
(* The external calls.                                                     *)
(***************************************************************************)
Call(op, group, arg, ok) == [op |-> op, group |-> group, arg |-> arg, ok |-> ok]

\* `lfs quota -p gid PROJECT_FS`: on success a header and one line for the
\* filesystem, whose fields are kbytes, quota, limit; nothing on failure.
LfsQuotaOutput(g, ok) ==
    IF ok
    THEN << [path |-> "", fields |-> <<>>],
            [path |-> PROJECT_FS, fields |-> <<0, 0, quota_kb[g]>>] >>
    ELSE <<>>

\* lines 107-111; None is -1.
None == 0 - 1

check_quota(stdout) ==
    LET hits == SelectSeq(stdout, LAMBDA line : line.path = PROJECT_FS)
    IN  IF hits = <<>> THEN None ELSE (Head(hits).fields[3] \div 1024) \div 1024

\* line 115
quota_kb_of(quota) == quota * 1024 * 1024

CurrentGroup == group_grants.keys[idx]

GroupDir == fs[CurrentGroup]

(***************************************************************************)
(* main, lines 176-189, up to the call of synchronize_storage.             *)
(***************************************************************************)
Main ==
    /\ pc = "main"
    /\ group_grants' = BuildGroupGrants(data)
    /\ idx' = 1
    /\ pc' = "loop"
    /\ UNCHANGED <<env, fs, quota_kb, capacity, gid, run, calls, fs0,
                   quota_kb0, failed_before>>

(***************************************************************************)
(* synchronize_storage, the head of the for loop: lines 131-142.           *)
(***************************************************************************)
\* The dict is exhausted: synchronize_storage and main return.
LoopDone ==
    /\ pc = "loop"
    /\ idx > Len(group_grants.keys)
    /\ pc' = "done"
    /\ UNCHANGED <<env, fs, quota_kb, group_grants, idx, capacity, gid, run,
                   calls, fs0, quota_kb0, failed_before>>

\* lines 132-134: the group is not in the system: debug() and continue.
SkipGroup ==
    /\ pc = "loop"
    /\ idx <= Len(group_grants.keys)
    /\ CurrentGroup \notin DOMAIN system_groups_gid
    /\ calls' = Append(calls, Call("skip", CurrentGroup, 0, TRUE))
    /\ idx' = idx + 1
    /\ UNCHANGED <<env, fs, quota_kb, pc, group_grants, capacity, gid, run,
                   fs0, quota_kb0, failed_before>>

\* line 135 raises KeyError: nothing catches it, the program ends.
SumStorageKeyError ==
    /\ pc = "loop"
    /\ idx <= Len(group_grants.keys)
    /\ CurrentGroup \in DOMAIN system_groups_gid
    /\ sum_storage_raises(group_grants.grants[CurrentGroup])
    /\ pc' = "crashed"
    /\ UNCHANGED <<env, fs, quota_kb, group_grants, idx, capacity, gid, run,
                   calls, fs0, quota_kb0, failed_before>>

isdir_never(d) == FALSE

\* os.path.isdir
isdir(d) == d.kind = "dir"

\* lines 135-142: capacity, gid and the branch on os.path.isdir.
EnterGroup ==
    /\ pc = "loop"
    /\ idx <= Len(group_grants.keys)
    /\ CurrentGroup \in DOMAIN system_groups_gid
    /\ ~sum_storage_raises(group_grants.grants[CurrentGroup])
    /\ capacity' = applied_floor(sum_storage(group_grants.grants[CurrentGroup]))
    /\ gid' = system_groups_gid[CurrentGroup]
    /\ pc' = IF isdir(GroupDir) THEN "check_quota" ELSE "mkdir"
    /\ UNCHANGED <<env, fs, quota_kb, group_grants, idx, run, calls, fs0,
                   quota_kb0, failed_before>>

(***************************************************************************)
(* The directory exists: lines 143-145.                                    *)
(***************************************************************************)
needs_update(quota, cap) == quota # cap

\* quota = check_quota(gid), compared with capacity.  execute()'s return
\* code is dropped: an `lfs quota` that fails prints nothing and the loop
\* over stdout falls through, returning None.
CheckQuota ==
    /\ pc = "check_quota"
    /\ \E ok \in BOOLEAN :
          LET quota == check_quota(LfsQuotaOutput(gid, ok))
          IN  /\ calls' = Append(calls, Call("quota", CurrentGroup, gid, ok))
              /\ IF needs_update(quota, capacity)
                 THEN /\ pc' = "set_quota"
                      /\ idx' = idx
                 ELSE /\ pc' = "loop"
                      /\ idx' = idx + 1
    /\ UNCHANGED <<env, fs, quota_kb, group_grants, capacity, gid, run, fs0,
                   quota_kb0, failed_before>>

\* set_quota(gid, capacity), lines 145 and 153; the return code is dropped.
SetQuota ==
    /\ pc = "set_quota"
    /\ \E ok \in BOOLEAN :
          /\ calls' = Append(calls, Call("setquota", CurrentGroup, capacity, ok))
          /\ quota_kb' = IF ok
                         THEN [quota_kb EXCEPT ![gid] = quota_kb_of(capacity)]
                         ELSE quota_kb
    /\ pc' = "loop"
    /\ idx' = idx + 1
    /\ UNCHANGED <<env, fs, group_grants, capacity, gid, run, fs0, quota_kb0,
                   failed_before>>

(***************************************************************************)
(* The directory does not exist: lines 147-153.  os.mkdir, os.chmod and    *)
(* os.chown raise OSError when they fail, and nothing catches it.          *)
(***************************************************************************)
Mkdir ==
    /\ pc = "mkdir"
    /\ \E ok \in BOOLEAN :
          /\ ok => GroupDir.kind = "absent"
          /\ calls' = Append(calls, Call("mkdir", CurrentGroup, 0, ok))
          /\ fs' = IF ok
                   THEN [fs EXCEPT ![CurrentGroup] =
                            [kind |-> "dir", mode |-> DefaultMode, gid |-> 0,
                             proj |-> 0]]
                   ELSE fs
          /\ pc' = IF ok THEN "chmod" ELSE "crashed"
    /\ UNCHANGED <<env, quota_kb, group_grants, idx, capacity, gid, run, fs0,
                   quota_kb0, failed_before>>

Chmod ==
    /\ pc = "chmod"
    /\ \E ok \in BOOLEAN :
          /\ calls' = Append(calls, Call("chmod", CurrentGroup, ProvisionMode, ok))
          /\ fs' = IF ok
                   THEN [fs EXCEPT ![CurrentGroup].mode = ProvisionMode]
                   ELSE fs
          /\ pc' = IF ok THEN "chown" ELSE "crashed"
    /\ UNCHANGED <<env, quota_kb, group_grants, idx, capacity, gid, run, fs0,
                   quota_kb0, failed_before>>

\* os.chown(path, -1, gid): the owner is left as it is.
Chown ==
    /\ pc = "chown"
    /\ \E ok \in BOOLEAN :
          /\ calls' = Append(calls, Call("chown", CurrentGroup, gid, ok))
          /\ fs' = IF ok THEN [fs EXCEPT ![CurrentGroup].gid = gid] ELSE fs
          /\ pc' = IF ok THEN "set_project" ELSE "crashed"
    /\ UNCHANGED <<env, quota_kb, group_grants, idx, capacity, gid, run, fs0,
                   quota_kb0, failed_before>>

\* set_project(path, gid): `lfs project -p gid -s -r path`; the return code
\* is dropped and set_quota follows whatever it was.
SetProject ==
    /\ pc = "set_project"
    /\ \E ok \in BOOLEAN :
          /\ calls' = Append(calls, Call("project", CurrentGroup, gid, ok))
          /\ fs' = IF ok THEN [fs EXCEPT ![CurrentGroup].proj = gid] ELSE fs
    /\ pc' = "set_quota"
    /\ UNCHANGED <<env, quota_kb, group_grants, idx, capacity, gid, run, fs0,
                   quota_kb0, failed_before>>

(***************************************************************************)
(* The program is run again on the same data (a scheduled job).            *)
(***************************************************************************)
SomeCallFailed == \E i \in 1..Len(calls) : ~calls[i].ok

Rerun ==
    /\ pc \in {"done", "crashed"}
    /\ run < MaxRuns
    /\ run' = run + 1
    /\ pc' = "main"
    /\ group_grants' = EmptyDict
    /\ idx' = 0
    /\ capacity' = 0
    /\ gid' = 0
    /\ calls' = <<>>
    /\ fs0' = fs
    /\ quota_kb0' = quota_kb
    /\ failed_before' = (failed_before \/ SomeCallFailed \/ pc = "crashed")
    /\ UNCHANGED <<env, fs, quota_kb>>

\* No storage allocation of RunGrants lacks its capacity: line 100 does not
\* raise in these runs.
Next ==
    \/ Main
    \/ LoopDone
    \/ SkipGroup
    \/ EnterGroup
    \/ CheckQuota
    \/ SetQuota
    \/ Mkdir
    \/ Chmod
    \/ Chown
    \/ SetProject
    \/ Rerun

Spec == Init /\ [][Next]_vars

(***************************************************************************)
(* The same program on a wider range of grants and with every project     *)
(* directory in place: the specification of the claims about the capacity. *)
(***************************************************************************)
MaxAggGrants == 2

AggGrants ==
    { Grant(s, "teamA", a) :
        s \in {S_active, S_accepted, S_expired, S_inactive, S_grant_active},
        a \in {<<Storage(50)>>, <<Storage(600)>>} }
    \cup { Grant(S_active, "teamB", <<StorageCapital(7), Storage(1), Cpu>>),
           Grant(S_active, "teamB", <<StorageNoCapacity>>),
           Grant(S_active, "teamA", <<>>),
           GrantNoAllocations(S_active, "teamA") }

InitAgg ==
    InitWith(SeqsUpTo(AggGrants, MaxAggGrants),
             SeqsUpTo([name : Names], MaxGroups),
             {[n \in Names |-> ForeignDir]},
             {[g \in Gids |-> 50 * KbPerGb]})

\* One run; every directory exists, so the run stays in lines 131-145.
NextAgg ==
    \/ Main
    \/ LoopDone
    \/ SkipGroup
    \/ SumStorageKeyError
    \/ EnterGroup
    \/ CheckQuota
    \/ SetQuota

SpecAgg == InitAgg /\ [][NextAgg]_vars

(***************************************************************************)
(* What the claims speak of.                                               *)
(***************************************************************************)
Listed == {data.groups[i].name : i \in 1..Len(data.groups)}

Resolved(g) == g \in DOMAIN system_groups_gid

\* The storage capacity granted to g, summed from the data itself.
RECURSIVE CapacityOf(_)
CapacityOf(allocs) ==
    IF allocs = <<>> THEN 0
    ELSE (IF Head(allocs).resource = "storage"
             /\ "capacity" \in DOMAIN Head(allocs).parameters
          THEN Head(allocs).parameters.capacity ELSE 0)
         + CapacityOf(Tail(allocs))

RECURSIVE DesiredOf(_, _)
DesiredOf(grants, g) ==
    IF grants = <<>> THEN 0
    ELSE (IF is_grant_active(Head(grants)) /\ Head(grants).group = g
             /\ "allocations" \in DOMAIN Head(grants)
          THEN CapacityOf(Head(grants).allocations) ELSE 0)
         + DesiredOf(Tail(grants), g)

Desired(g) == DesiredOf(data.grants, g)

Applied(g) == IF Desired(g) > 1 THEN Desired(g) ELSE 1

QuotaGb(q, g) == q[GidOf[g]] \div KbPerGb

CallsOf(g, ops) == {i \in 1..Len(calls) : calls[i].group = g /\ calls[i].op \in ops}

FailedCallsOf(g) == {i \in 1..Len(calls) : calls[i].group = g /\ ~calls[i].ok}

StructuralOps == {"mkdir", "chmod", "chown", "project"}

MutatingOps == StructuralOps \cup {"setquota"}

LfsOps == {"quota", "setquota", "project"}

RunEnded == pc \in {"done", "crashed"}

InGroup == pc \in {"check_quota", "set_quota", "mkdir", "chmod", "chown", "set_project"}

Provisioned(g) ==
    [kind |-> "dir", mode |-> ProvisionMode, gid |-> GidOf[g], proj |-> GidOf[g]]

(***************************************************************************)
(* C1.  When a run completes, every listed group that the OS knows has its *)
(* project directory and a quota of max(1, the capacity of the storage     *)
(* allocations of its active grants), in whole gigabytes, whatever the     *)
(* directories and quotas were before.                                     *)
(***************************************************************************)
C1_RunEstablishesQuota ==
    pc = "done" =>
        \A g \in Listed :
            Resolved(g) => /\ fs[g].kind = "dir"
                           /\ QuotaGb(quota_kb, g) = Applied(g)

\* C1 for the groups none of whose external calls failed in this run.
C1_WhenCallsSucceed ==
    pc = "done" =>
        \A g \in Listed :
            (Resolved(g) /\ FailedCallsOf(g) = {})
                => /\ fs[g].kind = "dir"
                   /\ QuotaGb(quota_kb, g) = Applied(g)

(***************************************************************************)
(* C2.  Idempotence: a run that follows a run on the same data (one in     *)
(* which every external call succeeded) issues no setQuota and no other    *)
(* mutating call.                                                          *)
(***************************************************************************)
C2_SecondRunQuiet ==
    (run > 1 /\ ~failed_before) =>
        \A i \in 1..Len(calls) : calls[i].op \notin MutatingOps

\* C2 as long as no external call of the second run has failed either.
C2_WhenCallsSucceed ==
    (run > 1 /\ ~failed_before /\ ~SomeCallFailed) =>
        \A i \in 1..Len(calls) : calls[i].op \notin MutatingOps

(***************************************************************************)
(* C3.  Monotonic correction: no group gets more than one setQuota in a    *)
(* run; and in a completed run a resolved group whose directory existed    *)
(* got none if its quota equalled the applied capacity, and otherwise      *)
(* exactly one, which brought the quota (up or down) to that capacity.     *)
(***************************************************************************)
C3_OneCorrectingCall ==
    /\ \A g \in Names : Cardinality(CallsOf(g, {"setquota"})) <= 1
    /\ pc = "done" =>
          \A g \in Listed :
              (Resolved(g) /\ fs0[g].kind = "dir") =>
                  IF QuotaGb(quota_kb0, g) = Applied(g)
                  THEN CallsOf(g, {"setquota"}) = {}
                  ELSE /\ Cardinality(CallsOf(g, {"setquota"})) = 1
                       /\ QuotaGb(quota_kb, g) = Applied(g)

\* C3 for the groups none of whose external calls failed in this run.
C3_WhenCallsSucceed ==
    /\ \A g \in Names : Cardinality(CallsOf(g, {"setquota"})) <= 1
    /\ pc = "done" =>
          \A g \in Listed :
              (Resolved(g) /\ fs0[g].kind = "dir" /\ FailedCallsOf(g) = {}) =>
                  IF QuotaGb(quota_kb0, g) = Applied(g)
                  THEN CallsOf(g, {"setquota"}) = {}
                  ELSE /\ Cardinality(CallsOf(g, {"setquota"})) = 1
                       /\ QuotaGb(quota_kb, g) = Applied(g)

(***************************************************************************)
(* C4.  When the run has ended, every listed group the OS does not know    *)
(* has a skipped outcome and no mutation of its directory or quota, and    *)
(* every other listed group has been taken up by the run.                  *)
(***************************************************************************)
Untouched(g) ==
    /\ CallsOf(g, MutatingOps \cup {"quota"}) = {}
    /\ fs[g] = fs0[g]
    /\ quota_kb[GidOf[g]] = quota_kb0[GidOf[g]]

TakenUp(g) ==
    \E i \in 1..Len(group_grants.keys) : group_grants.keys[i] = g /\ i <= idx

C4_UnresolvedSkippedOthersReconciled ==
    RunEnded =>
        \A g \in Listed :
            ~Resolved(g) =>
                /\ CallsOf(g, {"skip"}) # {}
                /\ Untouched(g)
                /\ \A h \in Listed \ {g} : TakenUp(h)

\* C4 without the run's end: a group the OS does not know is never touched,
\* and a run that returns has skipped each of them.
C4_UnresolvedNeverTouched ==
    \A g \in Names :
        ~Resolved(g) => /\ Untouched(g)
                        /\ (pc = "done" /\ g \in Listed) => CallsOf(g, {"skip"}) # {}

(***************************************************************************)
(* C5.  Grants whose status is outside the active set ("expired",          *)
(* "inactive") never contribute: the capacity computed for a group is the  *)
(* capacity computed from the data without those grants.                   *)
(***************************************************************************)
NotActiveStatuses == {S_expired, S_inactive}

WithoutStatuses(grants, statuses) ==
    SelectSeq(grants, LAMBDA gr : gr.status \notin statuses)

C5_InactiveGrantsIgnored ==
    InGroup =>
        capacity = applied_floor(
            DesiredOf(WithoutStatuses(data.grants, NotActiveStatuses), CurrentGroup))

\* C5 for the statuses that hold neither marker as a substring.
C5_UnmarkedGrantsIgnored ==
    InGroup =>
        capacity = applied_floor(
            DesiredOf(WithoutStatuses(data.grants, {S_expired}), CurrentGroup))

(***************************************************************************)
(* C6.  A failure on one group never halts the run: when the run has ended *)
(* every group of the iteration has been taken up.                         *)
(***************************************************************************)
C6_FailureDoesNotHalt ==
    RunEnded => \A i \in 1..Len(group_grants.keys) : i <= idx

(***************************************************************************)
(* C7.  A non-zero exit status of the quota tool is surfaced, never        *)
(* swallowed: no run in which an lfs invocation failed returns as if every *)
(* group had been reconciled.                                              *)
(***************************************************************************)
C7_ToolFailureSurfaced ==
    pc = "done" =>
        \A i \in 1..Len(calls) : calls[i].op \in LfsOps => calls[i].ok

(***************************************************************************)
(* C8.  The applied capacity is max(1, desired capacity): a group without  *)
(* active grants or without storage allocations gets exactly 1, and every  *)
(* setQuota is issued with the applied capacity of its group, at least 1.  *)
(***************************************************************************)
NoActiveStorage(g) ==
    \A i \in 1..Len(data.grants) :
        LET gr == data.grants[i]
        IN  (gr.group = g /\ is_grant_active(gr) /\ "allocations" \in DOMAIN gr)
                => \A j \in 1..Len(gr.allocations) :
                      gr.allocations[j].resource # "storage"

C9_ProvisionThenSetQuota ==
    /\ \A i \in 1..Len(calls) :
          (calls[i].op = "setquota" /\ fs0[calls[i].group].kind # "dir") =>
              /\ fs[calls[i].group] = Provisioned(calls[i].group)
              /\ calls[i].arg = Applied(calls[i].group)
              /\ CallsOf(calls[i].group, {"quota"}) = {}
    /\ pc = "done" =>
          \A g \in Listed :
              (Resolved(g) /\ fs0[g].kind # "dir") =>
                  Cardinality(CallsOf(g, {"setquota"})) = 1

\* C9 for the groups none of whose external calls failed in this run.
C9_WhenCallsSucceed ==
    /\ \A i \in 1..Len(calls) :
          (/\ calls[i].op = "setquota"
           /\ fs0[calls[i].group].kind # "dir"
           /\ \A k \in FailedCallsOf(calls[i].group) : k >= i) =>
              /\ fs[calls[i].group] = Provisioned(calls[i].group)
              /\ calls[i].arg = Applied(calls[i].group)
              /\ CallsOf(calls[i].group, {"quota"}) = {}
    /\ pc = "done" =>
          \A g \in Listed :
              (Resolved(g) /\ fs0[g].kind # "dir") =>
                  Cardinality(CallsOf(g, {"setquota"})) = 1

(***************************************************************************)
(* C10.  A project directory that exists when the run starts is left as it *)
(* is: no mkdir, chmod, chown or project call is issued for it and its     *)
(* mode, group and project flag do not change; setQuota is the only        *)
(* mutation its group can get.                                             *)
(***************************************************************************)
C10_ExistingDirUntouched ==
    \A g \in Names :
        fs0[g].kind = "dir" => /\ fs[g] = fs0[g]
                               /\ CallsOf(g, StructuralOps) = {}

C10_Witness ==
    /\ pc = "done"
    /\ \E g \in Names :
          /\ fs0[g].kind = "dir"
          /\ fs[g] = ForeignDir
          /\ \E i \in CallsOf(g, {"setquota"}) : calls[i].ok

=============================================================================
